---- MODULE Spec2Model ----
(***************************************************************************)
(* A model of the core of matrices-py: the abstract MatrixLike base class  *)
(* (src/matrices/abstract.py), the free functions matcmp, matmul and       *)
(* matmap, shape equality (src/matrices/shapes/abstract.py) and the        *)
(* integral index conversion of the protocols (src/matrices/protocols.py). *)
(*                                                                         *)
(* Two operand matrices a and b are fixed at construction; every action is *)
(* one call of an operation on them, or one next() on the iterator a call  *)
(* returned.  Iterators are lazy: what a generator function does happens   *)
(* at the next() that reaches it, not at the call.                         *)
(***************************************************************************)
EXTENDS Integers, Sequences, FiniteSets, TLC

\* ------------------------------------------------------------------ bounds

\* Largest number of rows, and of columns, of an enumerated operand.
MaxDim == 2
\* Largest size (rows * columns) of an enumerated operand.
MaxSize == 2
\* Integral-like sources of the index conversion are the halves n/2 with
\* -MaxHalves <= n <= MaxHalves.
MaxHalves == 3

\* ---------------------------------------------------------------- elements
\* An element is an object <<kind, value>>.  Two elements are the same object
\* iff they are the same pair.  PyInt(1) and PyFloat(1) are equal and not
\* identical; NaN is identical to itself and equal to nothing.

PyInt(v) == <<"int", v>>
PyFloat(v) == <<"float", v>>
PyBool(p) == <<"bool", IF p THEN 1 ELSE 0>>
NaN == <<"nan", 1>>
\* The NaN an arithmetic operation produces: a new object.
NaNResult == <<"nan", 0>>
\* What indexing outside [0, size) gives: an IndexError instead of an element.
IndexError == <<"IndexError", 0>>
\* What reduce() of an empty iterable gives: a TypeError instead of a value.
TypeError == <<"TypeError", 0>>

Kind(x) == x[1]
Val(x) == x[2]
IsNaN(x) == Kind(x) = "nan"
IsNumber(x) == Kind(x) \in {"int", "float", "bool"}

\* The elements the enumerated operands are filled with.
Elems == {PyInt(0), PyInt(1), PyFloat(1), NaN}

\* x is y
Is(x, y) == x = y
\* x == y
PyEq(x, y) == IsNumber(x) /\ IsNumber(y) /\ Val(x) = Val(y)
\* x < y
PyLt(x, y) == IsNumber(x) /\ IsNumber(y) /\ Val(x) < Val(y)
\* x > y, the reflection of y < x
PyGt(x, y) == PyLt(y, x)
\* x <= y
PyLe(x, y) == IsNumber(x) /\ IsNumber(y) /\ Val(x) <= Val(y)
\* x >= y, the reflection of y <= x
PyGe(x, y) == PyLe(y, x)
\* bool(x): NaN is true
Truthy(x) == IF IsNumber(x) THEN Val(x) # 0 ELSE TRUE

ResultKind(x, y) ==
    IF Kind(x) = "float" \/ Kind(y) = "float" THEN "float" ELSE "int"
\* x + y
PyAdd(x, y) ==
    IF IsNumber(x) /\ IsNumber(y) THEN <<ResultKind(x, y), Val(x) + Val(y)>>
    ELSE IF Kind(x) = "IndexError" \/ Kind(y) = "IndexError" THEN IndexError
    ELSE NaNResult
\* -x
PyNeg(x) ==
    IF IsNumber(x) THEN <<ResultKind(x, x), 0 - Val(x)>>
    ELSE IF Kind(x) = "IndexError" THEN IndexError
    ELSE NaNResult
\* x - y, which is x + -y
PySub(x, y) == PyAdd(x, PyNeg(y))
\* x * y
PyMul(x, y) ==
    IF IsNumber(x) /\ IsNumber(y) THEN <<ResultKind(x, y), Val(x) * Val(y)>>
    ELSE IF Kind(x) = "IndexError" \/ Kind(y) = "IndexError" THEN IndexError
    ELSE NaNResult

\* The lambda of MatrixLike.__eq__
IsOrEq(x, y) == Is(x, y) \/ PyEq(x, y)

\* The binary operations matmap is called with.
Funcs == {"add", "sub", "is_or_eq"}
Apply(f, x, y) ==
    CASE f = "add" -> PyAdd(x, y)
      [] f = "sub" -> PySub(x, y)
      [] f = "is_or_eq" -> PyBool(IsOrEq(x, y))

\* ---------------------------------------------------------------- matrices
\* A matrix is its shape and its storage in row-major order.

Matrix(r, c, d) == [nrows |-> r, ncols |-> c, data |-> d]
shape(m) == <<m.nrows, m.ncols>>

\* A shape comparison that looks at the rows only.
ShapeEqRowsOnly(u, v) == u[1] = v[1]

\* A shape comparison that looks at the sizes only.
ShapeEqBySize(u, v) == u[1] * u[2] = v[1] * v[2]

\* ShapeLike.__eq__
ShapeEq(u, v) == u[1] = v[1] /\ u[2] = v[2]

\* ShapeLike.__eq__ of the protocol: self[0] == other[0] and self[1] == other[1]
ProtocolShapeEq(u, v) == u[1] = v[1] /\ u[2] = v[2]

\* MatrixLike.size
size(m) == m.nrows * m.ncols

\* m[k] for a flat index k
__getitem__(m, k) ==
    IF 0 <= k /\ k < Len(m.data) THEN m.data[k + 1] ELSE IndexError

\* m[i, :]
GetRow(m, i) ==
    Matrix(1, m.ncols, [j \in 1..m.ncols |-> __getitem__(m, i * m.ncols + (j - 1))])
\* m[:, j]
GetCol(m, j) ==
    Matrix(m.nrows, 1, [i \in 1..m.nrows |-> __getitem__(m, (i - 1) * m.ncols + j)])

Shapes ==
    {s \in (0..MaxDim) \X (0..MaxDim) : s[1] * s[2] <= MaxSize}
Matrices ==
    UNION {{Matrix(s[1], s[2], d) : d \in [1..(s[1] * s[2]) -> Elems]} : s \in Shapes}

IntMatrix(r, c, vs) == Matrix(r, c, [k \in 1..Len(vs) |-> PyInt(vs[k])])

\* The operands of the documented scenarios.
ExamplePairs ==
    { <<IntMatrix(2, 2, <<1, 2, 3, 4>>), IntMatrix(2, 2, <<5, 6, 7, 8>>)>>,
      <<IntMatrix(2, 3, <<1, 2, 3, 4, 5, 6>>), IntMatrix(3, 2, <<1, 2, 3, 4, 5, 6>>)>>,
      <<IntMatrix(3, 3, <<1, 2, 3, 4, 5, 6, 7, 8, 9>>),
        IntMatrix(3, 3, <<9, 8, 7, 6, 5, 4, 3, 2, 1>>)>>,
      <<IntMatrix(1, 3, <<1, 2, 3>>), IntMatrix(3, 1, <<4, 5, 6>>)>> }

\* ------------------------------------------------------------------- state

VARIABLES
    a,        \* the left operand (self)
    b,        \* the right operand (other)
    same,     \* whether other is the very object self
    it,       \* the iterator the last call returned, and where it stands
    out,      \* what that iterator has yielded so far
    res,      \* how the last call, or the last next(), ended
    applied,  \* element pairs the last operation applied its function to
    adds      \* the operator.add calls of the last product element

vars == <<a, b, same, it, out, res, applied, adds>>

None == <<"None", 0>>
\* pos counts the values yielded; i and j are the loop variables of matmul.
NoIter ==
    [kind |-> "none", f |-> "-", by |-> "-", pos |-> 0, i |-> 0, j |-> 0,
     state |-> "done"]
NewIter(kind, f, by, state) ==
    [kind |-> kind, f |-> f, by |-> by, pos |-> 0, i |-> 0, j |-> 0,
     state |-> state]

Ok(op, arg, val) ==
    [op |-> op, arg |-> arg, err |-> "none", cond |-> "none", val |-> val]
Raise(op, arg, err, cond) ==
    [op |-> op, arg |-> arg, err |-> err, cond |-> cond, val |-> None]

Init ==
    /\ \/ \E p \in (Matrices \X Matrices) \cup ExamplePairs :
             /\ a = p[1]
             /\ b = p[2]
             /\ same = FALSE
       \/ /\ a \in Matrices
          /\ b = a
          /\ same = TRUE
    /\ it = NoIter
    /\ out = <<>>
    /\ res = Ok("init", None, None)
    /\ applied = 0
    /\ adds = <<>>

\* A call is made when the caller holds no result of an earlier one.
Idle == res.op = "init"

\* The caller drops the result, or the iterator, of the last call
Forget ==
    /\ ~Idle
    /\ it' = NoIter
    /\ out' = <<>>
    /\ res' = Ok("init", None, None)
    /\ applied' = 0
    /\ adds' = <<>>
    /\ UNCHANGED <<a, b, same>>

\* ------------------------------------------------------------------ matmap

\* A map that hands func its arguments in the other order.
MapItemSwapped(f, x, y, k) == Apply(f, __getitem__(y, k), __getitem__(x, k))

\* The k-th value of map(func, a, b)
MapItem(f, x, y, k) == Apply(f, __getitem__(x, k), __getitem__(y, k))

\* matmap(func, a, b): the shapes are compared at the call
matmap ==
    \E f \in Funcs :
        /\ Idle
        /\ IF ~ShapeEq(shape(a), shape(b))
           THEN /\ res' = Raise("matmap", None, "ValueError", "ShapeMismatch")
                /\ it' = NoIter
           ELSE /\ res' = Ok("matmap", None, None)
                /\ it' = NewIter("map", f, "-", "running")
        /\ out' = <<>>
        /\ applied' = 0
        /\ adds' = <<>>
        /\ UNCHANGED <<a, b, same>>

\* next() on the map object matmap returned: it ends with the shorter operand
NextMap ==
    /\ it.kind = "map"
    /\ it.state = "running"
    /\ IF it.pos < size(a) /\ it.pos < size(b)
       THEN /\ out' = Append(out, MapItem(it.f, a, b, it.pos))
            /\ res' = Ok("next", None, MapItem(it.f, a, b, it.pos))
            /\ it' = [it EXCEPT !.pos = it.pos + 1]
            /\ applied' = applied + 1
       ELSE /\ res' = Raise("next", None, "StopIteration", "none")
            /\ it' = [it EXCEPT !.state = "done"]
            /\ UNCHANGED <<out, applied>>
    /\ UNCHANGED <<a, b, same, adds>>

\* ------------------------------------------------------------------ matcmp

\* A loop that goes on after a deciding pair: the last one decides.
RECURSIVE MatcmpWalkLast(_, _, _)
MatcmpWalkLast(x, y, k) ==
    IF ~(k < size(x) /\ k < size(y)) THEN [val |-> 0, compared |-> k]
    ELSE LET rest == MatcmpWalkLast(x, y, k + 1)
         IN  IF rest.val # 0 THEN rest
             ELSE IF PyLt(__getitem__(x, k), __getitem__(y, k))
                  THEN [val |-> -1, compared |-> rest.compared]
             ELSE IF PyGt(__getitem__(x, k), __getitem__(y, k))
                  THEN [val |-> 1, compared |-> rest.compared]
             ELSE rest

\* The loop of matcmp from pair k on: the result and the pairs compared
RECURSIVE MatcmpWalk(_, _, _)
MatcmpWalk(x, y, k) ==
    IF ~(k < size(x) /\ k < size(y)) THEN [val |-> 0, compared |-> k]
    ELSE IF PyLt(__getitem__(x, k), __getitem__(y, k)) THEN [val |-> -1, compared |-> k + 1]
    ELSE IF PyGt(__getitem__(x, k), __getitem__(y, k)) THEN [val |-> 1, compared |-> k + 1]
    ELSE MatcmpWalk(x, y, k + 1)

\* matcmp(x, y): what it returns or raises, and the pairs it compared
MatcmpOf(x, y) ==
    IF ~ShapeEq(shape(x), shape(y))
    THEN [err |-> "ValueError", cond |-> "ShapeMismatch", val |-> 0, compared |-> 0]
    ELSE [err |-> "none", cond |-> "none",
          val |-> MatcmpWalk(x, y, 0).val, compared |-> MatcmpWalk(x, y, 0).compared]

CallResult(op, r, val) ==
    IF r.err # "none" THEN Raise(op, None, r.err, r.cond) ELSE Ok(op, None, val)

matcmp ==
    /\ Idle
    /\ res' = CallResult("matcmp", MatcmpOf(a, b), PyInt(MatcmpOf(a, b).val))
    /\ applied' = MatcmpOf(a, b).compared
    /\ it' = NoIter
    /\ out' = <<>>
    /\ adds' = <<>>
    /\ UNCHANGED <<a, b, same>>

\* ------------------------------------------------------------------ matmul

\* The checks without the one of the inner dimension being 0.
MatmulCheckNoZero(u, v) ==
    IF u[2] # v[1] THEN "ShapeMismatch" ELSE "none"

\* The two checks matmul makes before its loops
MatmulCheck(u, v) ==
    IF u[2] # v[1] THEN "ShapeMismatch"
    ELSE IF u[2] = 0 THEN "DegenerateDimension"
    ELSE "none"

\* The products with b read at j * q + k, the transposed position.
ProductsTransposed(x, y, i, j) ==
    [k \in 1..x.ncols |->
        PyMul(__getitem__(x, i * x.ncols + (k - 1)), __getitem__(y, j * y.ncols + (k - 1)))]

\* map(lambda k: a[i * n + k] * b[k * q + j], kx) as a sequence
Products(x, y, i, j) ==
    [k \in 1..x.ncols |->
        PyMul(__getitem__(x, i * x.ncols + (k - 1)), __getitem__(y, (k - 1) * y.ncols + j))]

\* functools.reduce(operator.add, s) of a non-empty s, without an initial value
RECURSIVE ReduceAdd(_)
ReduceAdd(s) ==
    IF Len(s) = 0 THEN TypeError
    ELSE IF Len(s) = 1 THEN s[1]
    ELSE PyAdd(ReduceAdd(SubSeq(s, 1, Len(s) - 1)), s[Len(s)])

\* The calls of operator.add that reduce makes, as <<left, right>>, in order
AddCalls(s) ==
    [k \in 1..(Len(s) - 1) |-> <<ReduceAdd(SubSeq(s, 1, k)), s[k + 1]>>]

\* The element matmul yields at (i, j)
MatmulItem(x, y, i, j) == ReduceAdd(Products(x, y, i, j))

\* A matmul that makes its two checks at the call.
matmulEager ==
    /\ Idle
    /\ IF MatmulCheck(shape(a), shape(b)) # "none"
       THEN /\ res' = Raise("matmul", None, "ValueError", MatmulCheck(shape(a), shape(b)))
            /\ it' = NoIter
       ELSE /\ res' = Ok("matmul", None, None)
            /\ it' = NewIter("matmul", "-", "-", "new")
    /\ out' = <<>>
    /\ applied' = 0
    /\ adds' = <<>>
    /\ UNCHANGED <<a, b, same>>

\* matmul(a, b) is a generator function: the call runs none of its body
matmul ==
    /\ Idle
    /\ res' = Ok("matmul", None, None)
    /\ it' = NewIter("matmul", "-", "-", "new")
    /\ out' = <<>>
    /\ applied' = 0
    /\ adds' = <<>>
    /\ UNCHANGED <<a, b, same>>

\* next() on the generator of matmul: the first one runs the checks
NextMatmul ==
    /\ it.kind = "matmul"
    /\ it.state \in {"new", "running"}
    /\ IF it.state = "new" /\ MatmulCheck(shape(a), shape(b)) # "none"
       THEN /\ res' = Raise("next", None, "ValueError", MatmulCheck(shape(a), shape(b)))
            /\ it' = [it EXCEPT !.state = "done"]
            /\ UNCHANGED <<out, applied, adds>>
       ELSE IF it.i < a.nrows /\ it.j < b.ncols
       THEN /\ out' = Append(out, MatmulItem(a, b, it.i, it.j))
            /\ res' = Ok("next", None, MatmulItem(a, b, it.i, it.j))
            /\ adds' = AddCalls(Products(a, b, it.i, it.j))
            /\ applied' = applied + a.ncols
            /\ it' = IF it.j + 1 < b.ncols
                     THEN [it EXCEPT !.state = "running", !.pos = it.pos + 1,
                                     !.j = it.j + 1]
                     ELSE [it EXCEPT !.state = "running", !.pos = it.pos + 1,
                                     !.i = it.i + 1, !.j = 0]
       ELSE /\ res' = Raise("next", None, "StopIteration", "none")
            /\ it' = [it EXCEPT !.state = "done"]
            /\ UNCHANGED <<out, applied, adds>>
    /\ UNCHANGED <<a, b, same>>

\* ------------------------------------------------- whole-matrix comparisons

\* all(matmap(lambda x, y: x is y or x == y, x, y)) from pair k on
RECURSIVE AllWalk(_, _, _)
AllWalk(x, y, k) ==
    IF ~(k < size(x) /\ k < size(y)) THEN [val |-> TRUE, compared |-> k]
    ELSE IF ~Truthy(MapItem("is_or_eq", x, y, k)) THEN [val |-> FALSE, compared |-> k + 1]
    ELSE AllWalk(x, y, k + 1)

\* An equality that answers false for operands of unequal shapes.
EqOfFalseOnMismatch(x, y, sameObject) ==
    IF sameObject
    THEN [err |-> "none", cond |-> "none", val |-> TRUE, compared |-> 0]
    ELSE IF ~ShapeEq(shape(x), shape(y))
    THEN [err |-> "none", cond |-> "none", val |-> FALSE, compared |-> 0]
    ELSE [err |-> "none", cond |-> "none",
          val |-> AllWalk(x, y, 0).val, compared |-> AllWalk(x, y, 0).compared]

\* MatrixLike.__eq__ for a MatrixLike other
EqOf(x, y, sameObject) ==
    IF sameObject
    THEN [err |-> "none", cond |-> "none", val |-> TRUE, compared |-> 0]
    ELSE IF ~ShapeEq(shape(x), shape(y))
    THEN [err |-> "ValueError", cond |-> "ShapeMismatch", val |-> FALSE, compared |-> 0]
    ELSE [err |-> "none", cond |-> "none",
          val |-> AllWalk(x, y, 0).val, compared |-> AllWalk(x, y, 0).compared]

\* A less-or-equal that is false on equality.
LeOfStrict(x, y) == MatcmpOf(x, y).val < 0
\* A greater-than that is true on equality.
GtOfNonStrict(x, y) == MatcmpOf(x, y).val >= 0

\* MatrixLike.__lt__, __le__, __gt__, __ge__: the value when matcmp returns
LtOf(x, y) == MatcmpOf(x, y).val < 0
LeOf(x, y) == MatcmpOf(x, y).val <= 0
GtOf(x, y) == MatcmpOf(x, y).val > 0
GeOf(x, y) == MatcmpOf(x, y).val >= 0

Compare(op, r, val) ==
    /\ Idle
    /\ res' = CallResult(op, r, PyBool(val))
    /\ applied' = r.compared
    /\ it' = NoIter
    /\ out' = <<>>
    /\ adds' = <<>>
    /\ UNCHANGED <<a, b, same>>

__eq__ == Compare("eq", EqOf(a, b, same), EqOf(a, b, same).val)
__lt__ == Compare("lt", MatcmpOf(a, b), LtOf(a, b))
__le__ == Compare("le", MatcmpOf(a, b), LeOf(a, b))
__gt__ == Compare("gt", MatcmpOf(a, b), GtOf(a, b))
__ge__ == Compare("ge", MatcmpOf(a, b), GeOf(a, b))

\* ------------------------------------------ iteration, containment, slices

\* iter(a): a generator over a[0], a[1], ...
__iter__ ==
    /\ Idle
    /\ res' = Ok("iter", None, None)
    /\ it' = NewIter("iter", "-", "-", "new")
    /\ out' = <<>>
    /\ applied' = 0
    /\ adds' = <<>>
    /\ UNCHANGED <<a, b, same>>

\* reversed(a): a generator over a[size - 1], a[size - 2], ...
__reversed__ ==
    /\ Idle
    /\ res' = Ok("reversed", None, None)
    /\ it' = NewIter("reversed", "-", "-", "new")
    /\ out' = <<>>
    /\ applied' = 0
    /\ adds' = <<>>
    /\ UNCHANGED <<a, b, same>>

\* The key of the k-th value of each
IterKey(m, k) == k
ReversedKey(m, k) == size(m) - 1 - k

NextElement(kind, key) ==
    /\ it.kind = kind
    /\ it.state \in {"new", "running"}
    /\ IF it.pos < size(a)
       THEN /\ out' = Append(out, __getitem__(a, key))
            /\ res' = Ok("next", None, __getitem__(a, key))
            /\ it' = [it EXCEPT !.state = "running", !.pos = it.pos + 1]
       ELSE /\ res' = Raise("next", None, "StopIteration", "none")
            /\ it' = [it EXCEPT !.state = "done"]
            /\ UNCHANGED out
    /\ UNCHANGED <<a, b, same, applied, adds>>

NextIter == NextElement("iter", IterKey(a, it.pos))

\* A reversed iteration that swaps the two ends of the storage as it goes.
NextReversedInPlace ==
    /\ it.kind = "reversed"
    /\ it.state \in {"new", "running"}
    /\ IF it.pos < size(a)
       THEN /\ out' = Append(out, __getitem__(a, ReversedKey(a, it.pos)))
            /\ res' = Ok("next", None, __getitem__(a, ReversedKey(a, it.pos)))
            /\ it' = [it EXCEPT !.state = "running", !.pos = it.pos + 1]
            /\ a' = [a EXCEPT !.data[it.pos + 1] = a.data[size(a) - it.pos],
                              !.data[size(a) - it.pos] = a.data[it.pos + 1]]
       ELSE /\ res' = Raise("next", None, "StopIteration", "none")
            /\ it' = [it EXCEPT !.state = "done"]
            /\ UNCHANGED <<a, out>>
    /\ UNCHANGED <<b, same, applied, adds>>

NextReversed == NextElement("reversed", ReversedKey(a, it.pos))

\* any(map(lambda x: x is value or x == value, m)) from element k on
RECURSIVE AnyWalk(_, _, _)
AnyWalk(m, v, k) ==
    IF ~(k < size(m)) THEN [val |-> FALSE, compared |-> k]
    ELSE IF IsOrEq(__getitem__(m, k), v) THEN [val |-> TRUE, compared |-> k + 1]
    ELSE AnyWalk(m, v, k + 1)

\* value in a (MatrixLike.__contains__ of the abstract base class)
__contains__ ==
    \E v \in Elems :
        /\ Idle
        /\ res' = Ok("contains", v, PyBool(AnyWalk(a, v, 0).val))
        /\ applied' = AnyWalk(a, v, 0).compared
        /\ it' = NoIter
        /\ out' = <<>>
        /\ adds' = <<>>
        /\ UNCHANGED <<a, b, same>>

\* map(function, *iterables) of the builtins: called with the function alone
\* it raises TypeError, with an iterable it returns a lazy sequence
MapCall(iterables) == IF iterables = 0 THEN "TypeError" ELSE "none"

\* value in a (MatrixLike.__contains__ of the protocol): the closing
\* parenthesis of map comes before the matrix, any(map(lambda ...), self), so
\* that map is called with no iterable before any is called at all
ProtocolContains ==
    \E v \in Elems :
        /\ Idle
        /\ res' = IF MapCall(0) # "none"
                  THEN Raise("protocol_contains", v, MapCall(0), "none")
                  ELSE Ok("protocol_contains", v, PyBool(AnyWalk(a, v, 0).val))
        /\ applied' = IF MapCall(0) # "none" THEN 0
                      ELSE AnyWalk(a, v, 0).compared
        /\ it' = NoIter
        /\ out' = <<>>
        /\ adds' = <<>>
        /\ UNCHANGED <<a, b, same>>

Rules == {"ROW", "COLUMN"}

\* A count that takes the other dimension.
SlicesCountSwapped(m, by) == IF by = "ROW" THEN m.ncols ELSE m.nrows

\* How many sub-matrices a.slices(by=by) yields, and the k-th of them
SlicesCount(m, by) == IF by = "ROW" THEN m.nrows ELSE m.ncols
SlicesItem(m, by, k) == IF by = "ROW" THEN GetRow(m, k) ELSE GetCol(m, k)

\* a.slices(by=by): a generator
slices ==
    \E by \in Rules :
        /\ Idle
        /\ res' = Ok("slices", None, None)
        /\ it' = NewIter("slices", "-", by, "new")
        /\ out' = <<>>
        /\ applied' = 0
        /\ adds' = <<>>
        /\ UNCHANGED <<a, b, same>>

NextSlices ==
    /\ it.kind = "slices"
    /\ it.state \in {"new", "running"}
    /\ IF it.pos < SlicesCount(a, it.by)
       THEN /\ out' = Append(out, SlicesItem(a, it.by, it.pos))
            /\ res' = Ok("next", None, None)
            /\ it' = [it EXCEPT !.state = "running", !.pos = it.pos + 1]
       ELSE /\ res' = Raise("next", None, "StopIteration", "none")
            /\ it' = [it EXCEPT !.state = "done"]
            /\ UNCHANGED out
    /\ UNCHANGED <<a, b, same, applied, adds>>

\* a.shape == b.shape, by the __eq__ of either definition of ShapeLike
ShapeClasses == {"abstract", "protocol"}
ShapeLikeEq ==
    \E cls \in ShapeClasses :
        /\ Idle
        /\ res' = Ok("shape_eq", <<cls, 0>>,
                     PyBool(IF cls = "abstract"
                            THEN ShapeEq(shape(a), shape(b))
                            ELSE ProtocolShapeEq(shape(a), shape(b))))
        /\ it' = NoIter
        /\ out' = <<>>
        /\ applied' = 0
        /\ adds' = <<>>
        /\ UNCHANGED <<a, b, same>>

\* -------------------------------------------------------- index conversion

\* The source of a conversion is the rational n/2, given as its halves n; it
\* has an exact integer representation iff n is even.
Halves == (0 - MaxHalves)..MaxHalves
IsIntegral(n) == n % 2 = 0
Truncated(n) == IF n >= 0 THEN n \div 2 ELSE 0 - ((0 - n) \div 2)

\* __int__ is abstract: an implementation either truncates, as int() of the
\* built-in numbers does, or refuses a value that is no integer.
IntImpls == {"truncating", "strict"}
__int__(impl, n) ==
    IF IsIntegral(n) THEN [err |-> "none", val |-> n \div 2]
    ELSE IF impl = "truncating" THEN [err |-> "none", val |-> Truncated(n)]
    ELSE [err |-> "LossyConversion", val |-> 0]

\* IntegralLike.__index__ and IntegralMatrixLike.__index__: return int(self)
IndexOf(impl, n) == __int__(impl, n)

\* operator.index(x) of an integral-like x
__index__ ==
    \E impl \in IntImpls, n \in Halves :
        /\ Idle
        /\ res' = IF IndexOf(impl, n).err # "none"
                  THEN Raise("index", <<impl, n>>, IndexOf(impl, n).err, "none")
                  ELSE Ok("index", <<impl, n>>, PyInt(IndexOf(impl, n).val))
        /\ it' = NoIter
        /\ out' = <<>>
        /\ applied' = 0
        /\ adds' = <<>>
        /\ UNCHANGED <<a, b, same>>

Next ==
    \/ matmap
    \/ NextMap
    \/ matcmp
    \/ matmul
    \/ NextMatmul
    \/ __eq__
    \/ __lt__
    \/ __le__
    \/ __gt__
    \/ __ge__
    \/ __iter__
    \/ NextIter
    \/ __reversed__
    \/ NextReversed
    \/ __contains__
    \/ ProtocolContains
    \/ slices
    \/ NextSlices
    \/ ShapeLikeEq
    \/ __index__
    \/ Forget

Spec == Init /\ [][Next]_vars

\* ------------------------------------------------------------------ claims

SameShape == a.nrows = b.nrows /\ a.ncols = b.ncols
ShapesDiffer == a.nrows # b.nrows \/ a.ncols # b.ncols
Indices == 1..(a.nrows * a.ncols)

\* C1: when the shapes of a and b differ in a component, even with equal
\* sizes, matmap and matcmp raise the shape-mismatch ValueError, apply the
\* function to no pair and compare no pair, and no map object ever exists.
C1_ShapeMismatchRaises ==
    ShapesDiffer =>
        /\ it.kind # "map"
        /\ res.op \in {"matmap", "matcmp"} =>
              /\ res.err = "ValueError"
              /\ res.cond = "ShapeMismatch"
              /\ applied = 0
              /\ out = <<>>

C1_Witness ==
    /\ shape(a) = <<2, 3>>
    /\ shape(b) = <<3, 2>>
    /\ res.op = "matmap"
    /\ res.err = "ValueError"
    /\ applied = 0

\* C2: with equal shapes matmap returns an iterator whose k-th value is
\* f(a[k], b[k]) in row-major order, and which has produced exactly a.size
\* values, no more, when it is exhausted (none for size 0).
C2_MatmapValues ==
    SameShape =>
        /\ res.op = "matmap" => (res.err = "none" /\ it.kind = "map" /\ out = <<>>)
        /\ it.kind = "map" =>
              /\ Len(out) <= a.nrows * a.ncols
              /\ \A k \in 1..Len(out) : out[k] = Apply(it.f, a.data[k], b.data[k])
              /\ applied = Len(out)
              /\ it.state = "done" => Len(out) = a.nrows * a.ncols

C2_Witness ==
    /\ it.kind = "map"
    /\ it.f = "sub"
    /\ it.state = "done"
    /\ shape(a) = <<2, 2>>
    /\ out = <<PyInt(-4), PyInt(-4), PyInt(-4), PyInt(-4)>>

\* The terms a[i,k] * b[k,j], k = 0 .. n-1, of the product element at (i, j),
\* a[i,k] read at the flat index i*n+k and b[k,j] at k*q+j.
Terms(i, j) ==
    [k \in 1..a.ncols |->
        PyMul(a.data[i * a.ncols + (k - 1) + 1], b.data[(k - 1) * b.ncols + j + 1])]
\* ((t1 + t2) + ...) + tk
RECURSIVE LeftSum(_, _)
LeftSum(t, k) == IF k = 1 THEN t[1] ELSE PyAdd(LeftSum(t, k - 1), t[k])
\* The integer t1 + ... + tk, summed from the right
RECURSIVE IntSum(_, _)
IntSum(t, k) == IF k = 0 THEN 0 ELSE Val(t[k]) + IntSum(t, k - 1)
RowOf(k) == (k - 1) \div b.ncols
ColOf(k) == (k - 1) % b.ncols

\* C3: a generator of matmul over shapes (m, n), (p, q) raises the
\* shape-mismatch ValueError when n # p and the bare ValueError of the zero
\* inner dimension when n = p = 0, whatever m and q are, at its first next();
\* it is then finished and has produced no element.
C3_MatmulRaises ==
    (it.kind = "matmul" /\ (a.ncols # b.nrows \/ a.ncols = 0)) =>
        /\ out = <<>>
        /\ it.pos = 0
        /\ it.state # "running"
        /\ it.state = "done" =>
              /\ res.op = "next"
              /\ res.err = "ValueError"
              /\ res.cond = IF a.ncols # b.nrows THEN "ShapeMismatch"
                            ELSE "DegenerateDimension"

C3_Witness ==
    /\ it.kind = "matmul"
    /\ a.ncols = 0
    /\ b.nrows = 0
    /\ a.nrows = 0
    /\ b.ncols = 2
    /\ res.err = "ValueError"
    /\ res.cond = "DegenerateDimension"

\* C4: over shapes (m, n), (n, q) with n >= 1 the generator of matmul yields
\* m*q values, the k-th being the element at (k div q, k mod q): the left fold
\* of the terms a[i,0]*b[0,j], ..., a[i,n-1]*b[n-1,j], whose first call of
\* operator.add is (first term, second term), with no zero seed.  For integers
\* it is the sum of the terms, and [[1,2],[3,4]] times [[5,6],[7,8]] gives
\* 19, 22, 43, 50.
C4_MatmulValues ==
    (it.kind = "matmul" /\ a.ncols = b.nrows /\ a.ncols >= 1) =>
        /\ Len(out) <= a.nrows * b.ncols
        /\ it.pos = Len(out)
        /\ \A k \in 1..Len(out) :
              /\ out[k] = LeftSum(Terms(RowOf(k), ColOf(k)), a.ncols)
              /\ (\A t \in 1..a.ncols : Kind(Terms(RowOf(k), ColOf(k))[t]) = "int") =>
                    out[k] = PyInt(IntSum(Terms(RowOf(k), ColOf(k)), a.ncols))
        /\ (res.op = "next" /\ res.err = "none") =>
              /\ Len(adds) = a.ncols - 1
              /\ \A t \in 1..Len(adds) :
                    adds[t] = << LeftSum(Terms(RowOf(Len(out)), ColOf(Len(out))), t),
                                 Terms(RowOf(Len(out)), ColOf(Len(out)))[t + 1] >>
        /\ it.state = "done" => (Len(out) = a.nrows * b.ncols /\ res.err = "StopIteration")
        /\ (it.state = "done" /\ a = IntMatrix(2, 2, <<1, 2, 3, 4>>)
                              /\ b = IntMatrix(2, 2, <<5, 6, 7, 8>>)) =>
              out = <<PyInt(19), PyInt(22), PyInt(43), PyInt(50)>>

C4_Witness ==
    /\ it.kind = "matmul"
    /\ it.state = "done"
    /\ a = IntMatrix(2, 2, <<1, 2, 3, 4>>)
    /\ b = IntMatrix(2, 2, <<5, 6, 7, 8>>)
    /\ out = <<PyInt(19), PyInt(22), PyInt(43), PyInt(50)>>

\* The indices of the pairs that decide a comparison
Deciding ==
    {k \in Indices : PyLt(a.data[k], b.data[k]) \/ PyGt(a.data[k], b.data[k])}
FirstDeciding == CHOOSE k \in Deciding : \A l \in Deciding : k <= l

\* C5: on same-shaped a and b matcmp returns -1 or 1 as the first pair, in
\* row-major order, with a[k] < b[k] or a[k] > b[k] is a[k] < b[k] or
\* a[k] > b[k], and compares no pair after it; it returns 0, having compared
\* every pair, when there is no such pair (and for size 0).
C5_MatcmpFirstDeciding ==
    (SameShape /\ res.op = "matcmp") =>
        /\ res.err = "none"
        /\ IF Deciding = {}
           THEN res.val = PyInt(0) /\ applied = a.nrows * a.ncols
           ELSE /\ applied = FirstDeciding
                /\ res.val = IF PyLt(a.data[FirstDeciding], b.data[FirstDeciding])
                             THEN PyInt(-1) ELSE PyInt(1)

C5_Witness ==
    /\ SameShape
    /\ res.op = "matcmp"
    /\ res.val = PyInt(-1)
    /\ applied = 1
    /\ \E k \in Indices : k > 1 /\ PyGt(a.data[k], b.data[k])

\* What the operators <, ==, > give on a and b: the result at hand for the one
\* just called, the operator's value for the others.
Holds(op, value) ==
    IF res.op = op /\ res.err = "none" THEN Truthy(res.val) ELSE value
IsLess == Holds("lt", LtOf(a, b))
IsEqual == Holds("eq", EqOf(a, b, same).val)
IsGreater == Holds("gt", GtOf(a, b))
Count(p, q, r) ==
    (IF p THEN 1 ELSE 0) + (IF q THEN 1 ELSE 0) + (IF r THEN 1 ELSE 0)
\* A pair that is neither ordered nor identical nor equal, such as NaN and 0
Unordered(x, y) == ~PyLt(x, y) /\ ~PyGt(x, y) /\ ~(x = y) /\ ~PyEq(x, y)
Compared == res.op \in {"lt", "eq", "gt", "matcmp"} /\ res.err = "none"

\* C6 as stated: on same-shaped a and b exactly one of a < b, a == b, a > b
\* holds, and matcmp(a, b) = -matcmp(b, a).
C6_ExactlyOne ==
    (SameShape /\ Compared) =>
        /\ Count(IsLess, IsEqual, IsGreater) = 1
        /\ MatcmpOf(a, b).val = 0 - MatcmpOf(b, a).val

\* C6 amended: on same-shaped a and b matcmp(a, b) = -matcmp(b, a) and at most
\* one of a < b, a == b, a > b holds; none holds exactly when b is another
\* object than a, no pair has a[k] < b[k] or a[k] > b[k], and some pair is
\* neither identical nor equal (NaN against anything else); otherwise exactly
\* one holds.
C6_AtMostOne ==
    (SameShape /\ Compared) =>
        /\ Count(IsLess, IsEqual, IsGreater) <= 1
        /\ MatcmpOf(a, b).val = 0 - MatcmpOf(b, a).val
        /\ res.op = "matcmp" => res.val = PyInt(0 - MatcmpOf(b, a).val)
        /\ Count(IsLess, IsEqual, IsGreater) = 0 <=>
              /\ ~same
              /\ Deciding = {}
              /\ \E k \in Indices : Unordered(a.data[k], b.data[k])

C6_Witness ==
    /\ SameShape
    /\ ~same
    /\ res.op = "eq"
    /\ res.err = "none"
    /\ ~Truthy(res.val)
    /\ Count(IsLess, IsEqual, IsGreater) = 0
    /\ \E k \in Indices : IsNaN(a.data[k])

RowMatrix(i) ==
    [nrows |-> 1, ncols |-> a.ncols,
     data |-> [j \in 1..a.ncols |-> a.data[i * a.ncols + j]]]
ColMatrix(j) ==
    [nrows |-> a.nrows, ncols |-> 1,
     data |-> [i \in 1..a.nrows |-> a.data[(i - 1) * a.ncols + j + 1]]]

\* C8: a.slices(by=ROW) yields a[0, :], a[1, :], ... and is exhausted after
\* exactly nrows of them; a.slices(by=COLUMN) yields a[:, 0], a[:, 1], ... and
\* is exhausted after exactly ncols; every call starts at index 0 with nothing
\* yielded.  The rows of the 3x3 matrix 1..9 are [1,2,3], [4,5,6], [7,8,9].
C8_SlicesInOrder ==
    /\ res.op = "slices" => (it.kind = "slices" /\ it.pos = 0 /\ out = <<>>)
    /\ it.kind = "slices" =>
          /\ it.pos = Len(out)
          /\ it.by = "ROW" =>
                /\ Len(out) <= a.nrows
                /\ \A k \in 1..Len(out) : out[k] = RowMatrix(k - 1)
                /\ it.state = "done" => Len(out) = a.nrows
          /\ it.by = "COLUMN" =>
                /\ Len(out) <= a.ncols
                /\ \A k \in 1..Len(out) : out[k] = ColMatrix(k - 1)
                /\ it.state = "done" => Len(out) = a.ncols
          /\ (it.by = "ROW" /\ it.state = "done"
                /\ a = IntMatrix(3, 3, <<1, 2, 3, 4, 5, 6, 7, 8, 9>>)) =>
                out = << IntMatrix(1, 3, <<1, 2, 3>>), IntMatrix(1, 3, <<4, 5, 6>>),
                         IntMatrix(1, 3, <<7, 8, 9>>) >>

C8_Witness ==
    /\ it.kind = "slices"
    /\ it.by = "ROW"
    /\ it.state = "done"
    /\ a = IntMatrix(3, 3, <<1, 2, 3, 4, 5, 6, 7, 8, 9>>)
    /\ Len(out) = 3
    /\ out[2] = IntMatrix(1, 3, <<4, 5, 6>>)

C10_OperandsUnchanged == [][a' = a /\ b' = b]_vars

C10_Witness ==
    /\ it.kind = "reversed"
    /\ it.state = "done"
    /\ Len(out) = 2
    /\ out[1] # out[2]

\* v in m of the abstract base class: true iff some element x of m has
\* x is v or x == v, false for a matrix of size 0, and no error.
C11_ContainsAbstract ==
    res.op = "contains" =>
        /\ res.err = "none"
        /\ Truthy(res.val) <=>
               \E k \in Indices : Is(a.data[k], res.arg) \/ PyEq(a.data[k], res.arg)

\* C11: v in m returns true if some element x of m has x is v or x == v and
\* false otherwise (false for a matrix of size 0), for the __contains__ of
\* the abstract base class and of the protocol alike, and neither raises.
C11_ContainsBoth ==
    res.op \in {"contains", "protocol_contains"} =>
        /\ res.err = "none"
        /\ Truthy(res.val) <=>
               \E k \in Indices : Is(a.data[k], res.arg) \/ PyEq(a.data[k], res.arg)

C11_Witness ==
    /\ res.op = "contains"
    /\ IsNaN(res.arg)
    /\ res.val = PyBool(TRUE)
    /\ size(a) = 2

\* C12: two shapes are equal iff their rows are equal and their columns are
\* equal; (r, c) and (c, r) with r # c are unequal though their sizes are
\* equal; equality is reflexive and symmetric.
C12_ShapeEquality ==
    res.op = "shape_eq" =>
        /\ res.err = "none"
        /\ Truthy(res.val) <=> (a.nrows = b.nrows /\ a.ncols = b.ncols)
        /\ (a.nrows = b.ncols /\ a.ncols = b.nrows /\ a.nrows # a.ncols)
               => (size(a) = size(b) /\ ~Truthy(res.val))
        /\ \A m \in {a, b} :
               /\ ShapeEq(shape(m), shape(m))
               /\ ProtocolShapeEq(shape(m), shape(m))
        /\ ShapeEq(shape(a), shape(b)) <=> ShapeEq(shape(b), shape(a))
        /\ ProtocolShapeEq(shape(a), shape(b)) <=> ProtocolShapeEq(shape(b), shape(a))

C12_Witness ==
    /\ res.op = "shape_eq"
    /\ shape(a) = <<1, 2>>
    /\ shape(b) = <<2, 1>>
    /\ res.val = PyBool(FALSE)

C13_SameObject ==
    /\ res.op = "eq"
    /\ same
    /\ \E k \in Indices : IsNaN(a.data[k])
    /\ res.val = PyBool(TRUE)

C13_EqualByIdentity ==
    /\ res.op = "eq"
    /\ ~same
    /\ size(a) = 2
    /\ \E k \in Indices : IsNaN(a.data[k])
    /\ res.val = PyBool(TRUE)

\* C14: matmul(a, b) returns a sequence without failing whatever the shapes;
\* with an inner-dimension mismatch or a zero inner dimension the ValueError
\* comes at the first request of an element, before anything is yielded and
\* before any element of a or b is read. matmap(f, a, b) with unequal shapes
\* fails at the call and returns no sequence.
C14_LazyMatmulEagerMatmap ==
    /\ res.op = "matmul" =>
           /\ res.err = "none"
           /\ it.kind = "matmul"
           /\ it.state = "new"
           /\ out = <<>>
           /\ applied = 0
    /\ (it.kind = "matmul" /\ (a.ncols # b.nrows \/ a.ncols = 0)) =>
           \/ it.state = "new" /\ res.op = "matmul" /\ res.err = "none"
           \/ /\ it.state = "done"
              /\ res.op = "next"
              /\ res.err = "ValueError"
              /\ out = <<>>
              /\ applied = 0
    /\ (res.op = "matmap" /\ ShapesDiffer) =>
           /\ res.err = "ValueError"
           /\ it.kind = "none"
    /\ (res.op = "matmap" /\ SameShape) =>
           /\ res.err = "none"
           /\ it.kind = "map"

C14_Witness ==
    /\ it.kind = "matmul"
    /\ it.state = "done"
    /\ res.op = "next"
    /\ res.err = "ValueError"
    /\ a.ncols # b.nrows
    /\ size(a) > 0
    /\ size(b) > 0

\* the other cases of C14 happen too: the call that returns with a zero inner
\* dimension, and the matmap call that fails
C14_CallReturned ==
    /\ res.op = "matmul"
    /\ res.err = "none"
    /\ a.ncols = 0
    /\ b.nrows = 0

C14_MatmapFailed ==
    /\ res.op = "matmap"
    /\ res.err = "ValueError"
    /\ size(a) = size(b)
    /\ size(a) > 0

====
